---- MODULE Spec2Model ----
(***************************************************************************)
(* Model of scripts/validate_skill.py: the stdlib fallback frontmatter     *)
(* parser (_parse_scalar, _collect_block_scalar, _parse_frontmatter_stdlib)*)
(* and the check accounting / exit code of validate_skill.                 *)
(*                                                                         *)
(* Text is modelled as a sequence of one-character strings.  Line indices  *)
(* (i, j, k, bi) are 0-based as in the code; lines[n + 1] is the code's    *)
(* lines[n].                                                               *)
(***************************************************************************)
EXTENDS Integers, Sequences, FiniteSets, TLC

VARIABLES
    mode,        \* which entry point this behaviour runs
    pc,          \* position in the running function
    lines,       \* frontmatter_raw.splitlines()
    data,        \* _parse_frontmatter_stdlib: data
    i,           \* top-level loop index
    j,           \* look-ahead index of the nested run
    k,           \* nested loop index
    key,         \* current top-level key
    childKey,    \* current nested key
    nestedData,  \* nested_data
    bi,          \* _collect_block_scalar: i
    blockLines,  \* _collect_block_scalar: block_lines
    minIndent,   \* _collect_block_scalar: min_indent
    folded,      \* _collect_block_scalar: folded
    ret,         \* caller of _collect_block_scalar: "top", "nested" or "call"
    startIdx,    \* _collect_block_scalar: start_idx of the running call
    outText,     \* text returned by the last _collect_block_scalar call
    outNext,     \* index returned by the last _collect_block_scalar call
    err,         \* the FrontmatterParseError raised, or NoErr
    tok,         \* _parse_scalar: raw
    res,         \* _parse_scalar: returned value
    results,     \* validate_skill: counters and summary of results
    checks,      \* validate_skill: results["checks"] as a bag of (passed, severity)
    refsLeft,    \* validate_skill: entries of references/ still to be checked
    exitCode,    \* argument of sys.exit, or -1 before exit
    visited      \* history: how each input line index was consumed

vars == <<mode, pc, lines, data, i, j, k, key, childKey, nestedData, bi,
          blockLines, minIndent, folded, ret, startIdx, outText, outNext, err,
          tok, res, results, checks, refsLeft, exitCode, visited>>

parseVars == <<lines, data, i, j, k, key, childKey, nestedData, bi,
               blockLines, minIndent, folded, ret, startIdx, outText, outNext,
               err, visited>>
scalarVars == <<tok, res>>
validateVars == <<results, checks, refsLeft, exitCode>>

----------------------------------------------------------------------------
(* Bounds *)

MaxLines == 3        \* lines of a parsed frontmatter
MaxBlockLines == 4   \* lines handed to a direct block-scalar collection
MaxParts == 3        \* pieces concatenated into a scalar token
MaxRefs == 1         \* entries in the references/ folder

----------------------------------------------------------------------------
(* Characters and strings *)

NL == "\n"
TAB == "\t"
DQ == "\""
SQ == "'"

\* str.strip() with no argument removes whitespace
Whitespace == {" ", TAB, NL}

Digits == {"0", "1", "2", "3", "4", "5", "6", "7", "8", "9"}
LowerLetters == {"a", "b", "c", "d", "e", "f", "i", "k", "l", "n", "o", "r",
                 "s", "t", "u", "x", "y"}
UpperLetters == {"A", "E", "F", "L", "N", "O", "R", "S", "T", "U"}

\* the class [A-Za-z0-9_-] of top_key_pattern / nested_key_pattern
KeyChars == LowerLetters \cup UpperLetters \cup Digits \cup {"_", "-"}

BlockMarkers == {<<"|">>, <<">">>, <<"|", "-">>, <<">", "-">>}

LowerChar(c) ==
    CASE c = "A" -> "a" [] c = "E" -> "e" [] c = "F" -> "f" [] c = "L" -> "l"
      [] c = "N" -> "n" [] c = "O" -> "o" [] c = "R" -> "r" [] c = "S" -> "s"
      [] c = "T" -> "t" [] c = "U" -> "u" [] OTHER -> c

Lower(s) == [n \in 1..Len(s) |-> LowerChar(s[n])]

DigitVal(c) ==
    CASE c = "0" -> 0 [] c = "1" -> 1 [] c = "2" -> 2 [] c = "3" -> 3
      [] c = "4" -> 4 [] c = "5" -> 5 [] c = "6" -> 6 [] c = "7" -> 7
      [] c = "8" -> 8 [] c = "9" -> 9

Drop(s, n) == IF n >= Len(s) THEN <<>> ELSE SubSeq(s, n + 1, Len(s))

StartsWith(s, p) == Len(s) >= Len(p) /\ SubSeq(s, 1, Len(p)) = p

\* number of leading characters of s that belong to cs
LeadCount(s, cs) ==
    IF \E n \in 1..Len(s) : s[n] \notin cs
    THEN (CHOOSE n \in 1..Len(s) :
              s[n] \notin cs /\ \A m \in 1..(n - 1) : s[m] \in cs) - 1
    ELSE Len(s)

\* number of trailing characters of s that belong to cs
TrailCount(s, cs) ==
    IF \E n \in 1..Len(s) : s[n] \notin cs
    THEN Len(s) - (CHOOSE n \in 1..Len(s) :
                       s[n] \notin cs /\ \A m \in (n + 1)..Len(s) : s[m] \in cs)
    ELSE Len(s)

LStrip(s) == Drop(s, LeadCount(s, Whitespace))
RStrip(s) == SubSeq(s, 1, Len(s) - TrailCount(s, Whitespace))
Strip(s) == RStrip(LStrip(s))

\* len(line) - len(line.lstrip(" "))
Indent(line) == LeadCount(line, {" "})

RECURSIVE Join(_, _)
Join(sep, parts) ==
    IF parts = <<>> THEN <<>>
    ELSE IF Len(parts) = 1 THEN parts[1]
    ELSE parts[1] \o sep \o Join(sep, Tail(parts))

----------------------------------------------------------------------------
(* _parse_scalar *)

VStr(s) == [type |-> "str", s |-> s]
VBool(b) == [type |-> "bool", b |-> b]
VNull == [type |-> "null"]
VInt(n) == [type |-> "int", n |-> n]
VFloat(neg, ip, fp) == [type |-> "float", neg |-> neg, ip |-> ip, fp |-> fp]
VMap(m) == [type |-> "map", m |-> m]

ScalarTypes == {"str", "bool", "null", "int", "float"}

IsDigits(s) == Len(s) > 0 /\ \A n \in 1..Len(s) : s[n] \in Digits

RECURSIVE NatValue(_)
NatValue(s) ==
    IF s = <<>> THEN 0
    ELSE 10 * NatValue(SubSeq(s, 1, Len(s) - 1)) + DigitVal(s[Len(s)])

Unsigned(s) == IF Len(s) > 0 /\ s[1] = "-" THEN Tail(s) ELSE s

\* re.fullmatch(r"-?\d+", value)
IsIntToken(s) == IsDigits(Unsigned(s))

\* re.fullmatch(r"-?\d+\.\d+", value)
IsFloatToken(s) ==
    LET u == Unsigned(s)
    IN  \E d \in 1..Len(u) :
            /\ u[d] = "."
            /\ IsDigits(SubSeq(u, 1, d - 1))
            /\ IsDigits(Drop(u, d))

IntValue(s) ==
    IF s[1] = "-" THEN 0 - NatValue(Tail(s)) ELSE NatValue(s)

FloatValue(s) ==
    LET u == Unsigned(s)
        d == CHOOSE n \in 1..Len(u) : u[n] = "."
        frac == Drop(u, d)
    IN  VFloat(s[1] = "-", NatValue(SubSeq(u, 1, d - 1)),
               SubSeq(frac, 1, Len(frac) - TrailCount(frac, {"0"})))

IsQuoted_DoubleOnly(value) ==
    value[1] = DQ /\ value[Len(value)] = DQ

IsQuoted(value) ==
    \/ value[1] = DQ /\ value[Len(value)] = DQ
    \/ value[1] = SQ /\ value[Len(value)] = SQ

NullWords == {<<"n", "u", "l", "l">>, <<"n", "o", "n", "e">>, <<"~">>}

ParseScalar(raw) ==
    LET value == Strip(raw)
        lower == Lower(value)
    IN  IF value = <<>> THEN VStr(<<>>)
        ELSE IF IsQuoted(value) THEN VStr(SubSeq(value, 2, Len(value) - 1))
        ELSE IF lower = <<"t", "r", "u", "e">> THEN VBool(TRUE)
        ELSE IF lower = <<"f", "a", "l", "s", "e">> THEN VBool(FALSE)
        ELSE IF lower \in NullWords THEN VNull
        ELSE IF IsIntToken(value) THEN VInt(IntValue(value))
        ELSE IF IsFloatToken(value) THEN FloatValue(value)
        ELSE VStr(value)

----------------------------------------------------------------------------
(* Line classification and the key patterns *)

\* line.strip() == ""
IsBlank(line) == Strip(line) = <<>>

\* line.strip().startswith("#")
IsComment(line) == StartsWith(Strip(line), <<"#">>)

IsSkippable(line) == IsBlank(line) \/ IsComment(line)

IsContent(line) == ~IsSkippable(line)

\* line.startswith(" ") at top level
TopIndented_TwoSpaces(line) == StartsWith(line, <<" ", " ">>)

TopIndented(line) == StartsWith(line, <<" ">>)

\* raw_value.startswith("- ") / nested_content.startswith("- ")
IsListItem(s) == StartsWith(s, <<"-", " ">>)

\* nested_content.startswith(" ")
IsDeeper_Never(nestedContent) == FALSE

IsDeeper(nestedContent) == StartsWith(nestedContent, <<" ">>)

\* candidate.startswith("  "): the line belongs to the nested run
InRun_NoBlank(candidate) == IsComment(candidate) \/ StartsWith(candidate, <<" ", " ">>)

InRun_NoComments(candidate) == IsBlank(candidate) \/ StartsWith(candidate, <<" ", " ">>)

InRun(candidate) == IsSkippable(candidate) \/ StartsWith(candidate, <<" ", " ">>)

\* ^([A-Za-z0-9_-]+)\s*:\s*(.*)$ matched at the start of s; value is
\* group(2).strip().  The key class excludes whitespace and ":", so the
\* greedy key is the only candidate.
KeyMatch(s) ==
    LET kl == LeadCount(s, KeyChars)
        afterKey == LStrip(Drop(s, kl))
    IN  IF kl > 0 /\ afterKey # <<>> /\ afterKey[1] = ":"
        THEN [ok |-> TRUE, key |-> SubSeq(s, 1, kl),
              value |-> Strip(Drop(afterKey, 1))]
        ELSE [ok |-> FALSE, key |-> <<>>, value |-> <<>>]

NoErr == [kind |-> "none", line |-> 0]
Error(kind, idx) == [kind |-> kind, line |-> idx + 1]

EmptyMap == [x \in {} |-> VNull]
Put(m, kk, v) == [x \in (DOMAIN m) \cup {kk} |-> IF x = kk THEN v ELSE m[x]]

Line(n) == lines[n + 1]
NumLines == Len(lines)

Mark(n, role) == [visited EXCEPT ![n + 1] = Append(@, role)]

----------------------------------------------------------------------------
(* _collect_block_scalar *)

\* the fold loop over block_lines: paragraphs, current
RECURSIVE FoldParagraphs(_, _, _)
FoldParagraphs(bl, paragraphs, current) ==
    LET closed == IF current # <<>>
                  THEN Append(paragraphs, Join(<<" ">>, current))
                  ELSE paragraphs
    IN  IF bl = <<>> THEN closed
        ELSE IF Head(bl) = <<>>
             THEN FoldParagraphs(Tail(bl), Append(closed, <<>>), <<>>)
             ELSE FoldParagraphs(Tail(bl), paragraphs,
                                 Append(current, Strip(Head(bl))))

BlockText(bl, isFolded) ==
    IF isFolded
    THEN RStrip(Join(<<NL>>, FoldParagraphs(bl, <<>>, <<>>)))
    ELSE RStrip(Join(<<NL>>, bl))

\* the loop stops at a non-blank line with indent < min_indent
BlockStops_Blank(line) == IsBlank(line) \/ Indent(line) < minIndent

BlockStops(line) == ~IsBlank(line) /\ Indent(line) < minIndent

\* start_idx passed by the callers: i + 1, k + 1
BlockStart_SameLine(idx) == idx

BlockStart(idx) == idx + 1

\* loop body, blank line: block_lines.append(""); i += 1
BlockBlank ==
    /\ pc = "block"
    /\ bi < NumLines
    /\ IsBlank(Line(bi))
    /\ blockLines' = Append(blockLines, <<>>)
    /\ bi' = bi + 1
    /\ visited' = Mark(bi, "body")
    /\ UNCHANGED <<mode, pc, lines, data, i, j, k, key, childKey, nestedData,
                   minIndent, folded, ret, startIdx, outText, outNext, err>>
    /\ UNCHANGED <<scalarVars, validateVars>>

\* loop body, indented line: block_lines.append(line[min_indent:]); i += 1
BlockTake ==
    /\ pc = "block"
    /\ bi < NumLines
    /\ ~IsBlank(Line(bi))
    /\ ~BlockStops(Line(bi))
    /\ blockLines' = Append(blockLines, Drop(Line(bi), minIndent))
    /\ bi' = bi + 1
    /\ visited' = Mark(bi, "body")
    /\ UNCHANGED <<mode, pc, lines, data, i, j, k, key, childKey, nestedData,
                   minIndent, folded, ret, startIdx, outText, outNext, err>>
    /\ UNCHANGED <<scalarVars, validateVars>>

\* loop exit (end of input or break) and return to the caller
BlockEnd ==
    /\ pc = "block"
    /\ IF bi < NumLines THEN BlockStops(Line(bi)) ELSE TRUE
    /\ outText' = BlockText(blockLines, folded)
    /\ outNext' = bi
    /\ CASE ret = "top" ->
              \* data[key] = parsed_block; i = next_idx
              /\ data' = Put(data, key, VStr(outText'))
              /\ i' = bi
              /\ pc' = "top"
              /\ UNCHANGED <<nestedData, k>>
         [] ret = "nested" ->
              \* nested_data[child_key] = child_block; k = next_k
              /\ nestedData' = Put(nestedData, childKey, VStr(outText'))
              /\ k' = bi
              /\ pc' = "nested"
              /\ UNCHANGED <<data, i>>
         [] OTHER ->
              /\ pc' = "done"
              /\ UNCHANGED <<data, i, nestedData, k>>
    /\ UNCHANGED <<mode, lines, j, key, childKey, bi, blockLines, minIndent,
                   folded, ret, startIdx, err, visited>>
    /\ UNCHANGED <<scalarVars, validateVars>>

----------------------------------------------------------------------------
(* _parse_frontmatter_stdlib: the top-level loop *)

collectVars == <<bi, blockLines, minIndent, folded, ret, startIdx, outText, outNext>>
nestVars == <<j, k, childKey, nestedData>>

AtTop == pc = "top" /\ i < NumLines

\* while i < len(lines) is false: return data
TopDone ==
    /\ pc = "top"
    /\ i >= NumLines
    /\ pc' = "done"
    /\ UNCHANGED <<mode, parseVars, scalarVars, validateVars>>

\* blank or comment line: i += 1
TopSkip ==
    /\ AtTop
    /\ IsSkippable(Line(i))
    /\ i' = i + 1
    /\ visited' = Mark(i, "skip")
    /\ UNCHANGED <<mode, pc, lines, data, key, err, nestVars, collectVars>>
    /\ UNCHANGED <<scalarVars, validateVars>>

\* raise "Unexpected indentation at top level"
TopIndentError ==
    /\ AtTop
    /\ ~IsSkippable(Line(i))
    /\ TopIndented(Line(i))
    /\ pc' = "fail"
    /\ err' = Error("Indent", i)
    /\ UNCHANGED <<mode, lines, data, i, key, visited, nestVars, collectVars>>
    /\ UNCHANGED <<scalarVars, validateVars>>

\* the line reaches top_key_pattern.match
AtTopEntry == AtTop /\ ~IsSkippable(Line(i)) /\ ~TopIndented(Line(i))

\* raise "Invalid top-level entry"
TopEntryError ==
    /\ AtTopEntry
    /\ ~KeyMatch(Line(i)).ok
    /\ pc' = "fail"
    /\ err' = Error("TopEntry", i)
    /\ UNCHANGED <<mode, lines, data, i, key, visited, nestVars, collectVars>>
    /\ UNCHANGED <<scalarVars, validateVars>>

\* raw_value in block_markers: call _collect_block_scalar(lines, i + 1, 2, folded)
TopBlock ==
    /\ AtTopEntry
    /\ KeyMatch(Line(i)).ok
    /\ KeyMatch(Line(i)).value \in BlockMarkers
    /\ key' = KeyMatch(Line(i)).key
    /\ folded' = StartsWith(KeyMatch(Line(i)).value, <<">">>)
    /\ minIndent' = 2
    /\ bi' = BlockStart(i)
    /\ startIdx' = BlockStart(i)
    /\ blockLines' = <<>>
    /\ ret' = "top"
    /\ pc' = "block"
    /\ visited' = Mark(i, "key")
    /\ UNCHANGED <<mode, lines, data, i, err, nestVars, outText, outNext>>
    /\ UNCHANGED <<scalarVars, validateVars>>

AtTopValue ==
    /\ AtTopEntry
    /\ KeyMatch(Line(i)).ok
    /\ KeyMatch(Line(i)).value \notin BlockMarkers
    /\ KeyMatch(Line(i)).value # <<>>

\* raw_value.startswith("- "): raise "List syntax is not supported"
TopListError ==
    /\ AtTopValue
    /\ IsListItem(KeyMatch(Line(i)).value)
    /\ pc' = "fail"
    /\ err' = Error("List", i)
    /\ UNCHANGED <<mode, lines, data, i, key, visited, nestVars, collectVars>>
    /\ UNCHANGED <<scalarVars, validateVars>>

\* data[key] = _parse_scalar(raw_value); i += 1
TopScalar ==
    /\ AtTopValue
    /\ ~IsListItem(KeyMatch(Line(i)).value)
    /\ key' = KeyMatch(Line(i)).key
    /\ data' = Put(data, key', ParseScalar(KeyMatch(Line(i)).value))
    /\ i' = i + 1
    /\ visited' = Mark(i, "key")
    /\ UNCHANGED <<mode, pc, lines, err, nestVars, collectVars>>
    /\ UNCHANGED <<scalarVars, validateVars>>

\* raw_value == "": j = i + 1 and enter the look-ahead loop
TopEmpty ==
    /\ AtTopEntry
    /\ KeyMatch(Line(i)).ok
    /\ KeyMatch(Line(i)).value = <<>>
    /\ key' = KeyMatch(Line(i)).key
    /\ j' = i + 1
    /\ pc' = "look"
    /\ visited' = Mark(i, "key")
    /\ UNCHANGED <<mode, lines, data, i, err, k, childKey, nestedData, collectVars>>
    /\ UNCHANGED <<scalarVars, validateVars>>

----------------------------------------------------------------------------
(* the look-ahead loop and the nested mapping loop *)

\* look-ahead loop body: the candidate stays in the run, j += 1
LookAdvance ==
    /\ pc = "look"
    /\ j < NumLines
    /\ InRun(Line(j))
    /\ j' = j + 1
    /\ UNCHANGED <<mode, pc, lines, data, i, key, err, visited, k, childKey,
                   nestedData, collectVars>>
    /\ UNCHANGED <<scalarVars, validateVars>>

LookExit == pc = "look" /\ (IF j < NumLines THEN ~InRun(Line(j)) ELSE TRUE)

\* any(nl.strip() and not nl.strip().startswith("#") for nl in lines[i + 1 : j])
HasContent(from, to) == \E n \in from..(to - 1) : IsContent(Line(n))

\* no content in the run: data[key] = ""; i = j
LookEndEmpty ==
    /\ LookExit
    /\ ~HasContent(i + 1, j)
    /\ data' = Put(data, key, VStr(<<>>))
    /\ i' = j
    /\ pc' = "top"
    /\ visited' = [n \in 1..NumLines |->
                      IF n - 1 >= i + 1 /\ n - 1 < j
                      THEN Append(visited[n], "skip") ELSE visited[n]]
    /\ UNCHANGED <<mode, lines, key, err, nestVars, collectVars>>
    /\ UNCHANGED <<scalarVars, validateVars>>

\* nested_data = {}; k = i + 1
LookEndNested ==
    /\ LookExit
    /\ HasContent(i + 1, j)
    /\ nestedData' = EmptyMap
    /\ k' = i + 1
    /\ pc' = "nested"
    /\ UNCHANGED <<mode, lines, data, i, j, key, childKey, err, visited, collectVars>>
    /\ UNCHANGED <<scalarVars, validateVars>>

AtNested == pc = "nested" /\ k < j

\* while k < j is false: data[key] = nested_data; i = j
NestedEnd ==
    /\ pc = "nested"
    /\ k >= j
    /\ data' = Put(data, key, VMap(nestedData))
    /\ i' = j
    /\ pc' = "top"
    /\ UNCHANGED <<mode, lines, key, err, visited, nestVars, collectVars>>
    /\ UNCHANGED <<scalarVars, validateVars>>

\* blank or comment line: k += 1
NestedSkip ==
    /\ AtNested
    /\ IsSkippable(Line(k))
    /\ k' = k + 1
    /\ visited' = Mark(k, "skip")
    /\ UNCHANGED <<mode, pc, lines, data, i, j, key, childKey, nestedData, err,
                   collectVars>>
    /\ UNCHANGED <<scalarVars, validateVars>>

\* nested_content = nested_line[2:]
NestedContent(line) == Drop(line, 2)

\* the raise taken by a nested content line, in the order of the checks
NestedErrorKind(line) ==
    IF ~StartsWith(line, <<" ", " ">>) THEN "NestedIndent"
    ELSE IF IsDeeper(NestedContent(line)) THEN "Deep"
    ELSE IF IsListItem(NestedContent(line)) THEN "List"
    ELSE IF ~KeyMatch(NestedContent(line)).ok THEN "NestedEntry"
    ELSE "none"

\* one of the four raises of the nested loop
NestedError ==
    /\ AtNested
    /\ ~IsSkippable(Line(k))
    /\ NestedErrorKind(Line(k)) # "none"
    /\ pc' = "fail"
    /\ err' = Error(NestedErrorKind(Line(k)), k)
    /\ UNCHANGED <<mode, lines, data, i, key, visited, nestVars, collectVars>>
    /\ UNCHANGED <<scalarVars, validateVars>>

AtChild ==
    /\ AtNested
    /\ ~IsSkippable(Line(k))
    /\ NestedErrorKind(Line(k)) = "none"

\* child_raw in block_markers: call _collect_block_scalar(lines, k + 1, 4, folded)
NestedBlock ==
    /\ AtChild
    /\ KeyMatch(NestedContent(Line(k))).value \in BlockMarkers
    /\ childKey' = KeyMatch(NestedContent(Line(k))).key
    /\ folded' = StartsWith(KeyMatch(NestedContent(Line(k))).value, <<">">>)
    /\ minIndent' = 4
    /\ bi' = BlockStart(k)
    /\ startIdx' = BlockStart(k)
    /\ blockLines' = <<>>
    /\ ret' = "nested"
    /\ pc' = "block"
    /\ visited' = Mark(k, "child")
    /\ UNCHANGED <<mode, lines, data, i, j, k, key, nestedData, err, outText, outNext>>
    /\ UNCHANGED <<scalarVars, validateVars>>

\* the value stored for a child with an inline value
ChildValue_Nest(childRaw) ==
    IF childRaw = <<>> THEN VMap(EmptyMap) ELSE ParseScalar(childRaw)

ChildValue(childRaw) == ParseScalar(childRaw)

\* nested_data[child_key] = _parse_scalar(child_raw); k += 1
NestedScalar ==
    /\ AtChild
    /\ KeyMatch(NestedContent(Line(k))).value \notin BlockMarkers
    /\ childKey' = KeyMatch(NestedContent(Line(k))).key
    /\ nestedData' = Put(nestedData, childKey',
                         ChildValue(KeyMatch(NestedContent(Line(k))).value))
    /\ k' = k + 1
    /\ visited' = Mark(k, "child")
    /\ UNCHANGED <<mode, pc, lines, data, i, j, key, err, collectVars>>
    /\ UNCHANGED <<scalarVars, validateVars>>

----------------------------------------------------------------------------
(* _parse_scalar as a step *)

\* return of _parse_scalar(raw)
Coerce ==
    /\ pc = "scalar"
    /\ res' = ParseScalar(tok)
    /\ pc' = "done"
    /\ UNCHANGED <<mode, tok, parseVars, validateVars>>

----------------------------------------------------------------------------
(* validate_skill and the exit code of __main__ *)

CheckKinds == [passed : BOOLEAN, severity : {"error", "warning"}]

\* results as initialised at the top of validate_skill; summary holds the
\* first word of results["summary"]
NewResults ==
    [passed |-> 0, failed |-> 0, warnings |-> 0, summary |-> "unset",
     parser_mode |-> "unknown"]

\* the pair (results, results["checks"]) threaded through add_check calls
Report(r, c) == [results |-> r, checks |-> c]

AddCheck_WarningsFail(rep, passed, severity) ==
    [results |->
        IF passed
        THEN [rep.results EXCEPT !.passed = @ + 1]
        ELSE [rep.results EXCEPT !.failed = @ + 1],
     checks |->
        [rep.checks EXCEPT ![[passed |-> passed, severity |-> severity]] = @ + 1]]

\* add_check(name, passed, message, severity)
AddCheck(rep, passed, severity) ==
    [results |->
        IF passed
        THEN [rep.results EXCEPT !.passed = @ + 1]
        ELSE IF severity = "warning"
             THEN [rep.results EXCEPT !.warnings = @ + 1]
             ELSE [rep.results EXCEPT !.failed = @ + 1],
     checks |->
        [rep.checks EXCEPT ![[passed |-> passed, severity |-> severity]] = @ + 1]]

\* results["summary"] = "FAIL - ..." on an early return
FailSummary(rep) == [rep EXCEPT !.results.summary = "FAIL"]

Now == Report(results, checks)

\* assign the report and move to the next position
Goto(rep, next) ==
    /\ results' = rep.results
    /\ checks' = rep.checks
    /\ pc' = next
    /\ UNCHANGED <<mode, refsLeft, exitCode, parseVars, scalarVars>>

\* Check 1: folder exists
CheckFolder ==
    /\ pc = "v_folder"
    /\ \E isdir \in BOOLEAN :
          IF ~isdir
          THEN Goto(FailSummary(AddCheck(Now, FALSE, "error")), "returned")
          ELSE Goto(AddCheck(Now, TRUE, "error"), "v_kebab")

\* Check 2: folder name is kebab-case
CheckKebab ==
    /\ pc = "v_kebab"
    /\ \E is_kebab \in BOOLEAN :
          Goto(AddCheck(Now, is_kebab, "error"), "v_skillmd")

\* Check 3: SKILL.md exists, wrong casing variants
CheckSkillMd ==
    /\ pc = "v_skillmd"
    /\ \E has_skill_md \in BOOLEAN, wrong_casings \in BOOLEAN :
          LET r1 == AddCheck(Now, has_skill_md, "error")
              r2 == IF wrong_casings THEN AddCheck(r1, FALSE, "error") ELSE r1
          IN  IF ~has_skill_md
              THEN Goto(FailSummary(r2), "returned")
              ELSE Goto(r2, "v_readme")

\* Check 4: no README.md
CheckReadme ==
    /\ pc = "v_readme"
    /\ \E has_readme \in BOOLEAN :
          Goto(AddCheck(Now, ~has_readme, "error"), "v_delims")

\* Check 5: frontmatter delimiters
CheckDelimiters ==
    /\ pc = "v_delims"
    /\ \E fm_match \in BOOLEAN :
          IF ~fm_match
          THEN Goto(FailSummary(AddCheck(Now, FALSE, "error")), "returned")
          ELSE Goto(AddCheck(Now, TRUE, "error"), "v_parse")

\* Check 5: parse_frontmatter inside try/except
CheckParse ==
    /\ pc = "v_parse"
    /\ \E raised \in BOOLEAN, parser_mode \in {"pyyaml", "stdlib"} :
          IF raised
          THEN Goto(FailSummary(AddCheck(Now, FALSE, "error")), "returned")
          ELSE Goto(AddCheck([Now EXCEPT !.results.parser_mode = parser_mode],
                             TRUE, "error"), "v_name")

\* Check 6: name field
CheckName ==
    /\ pc = "v_name"
    /\ \/ Goto(AddCheck(Now, FALSE, "error"), "v_desc")
       \/ \E is_name_kebab \in BOOLEAN, has_reserved \in BOOLEAN,
             names_match \in BOOLEAN :
             LET r1 == AddCheck(Now, TRUE, "error")
                 r2 == AddCheck(r1, is_name_kebab, "error")
                 r3 == AddCheck(r2, ~has_reserved, "error")
                 r4 == AddCheck(r3, names_match, "warning")
             IN  Goto(r4, "v_desc")

\* Check 7: description field
CheckDescription ==
    /\ pc = "v_desc"
    /\ \/ Goto(AddCheck(Now, FALSE, "error"), "v_meta")
       \/ \E desc_ok_length \in BOOLEAN, has_xml \in BOOLEAN,
             has_triggers \in BOOLEAN, has_negative_scope \in BOOLEAN :
             LET r1 == AddCheck(Now, TRUE, "error")
                 r2 == AddCheck(r1, desc_ok_length, "error")
                 r3 == AddCheck(r2, ~has_xml, "error")
                 r4 == AddCheck(r3, has_triggers, "error")
                 r5 == AddCheck(r4, has_negative_scope, "error")
             IN  Goto(r5, "v_meta")

\* Check 7b: metadata field
CheckMetadata ==
    /\ pc = "v_meta"
    /\ \/ Goto(AddCheck(Now, FALSE, "warning"), "v_body")
       \/ \E has_version \in BOOLEAN, has_author \in BOOLEAN :
             LET r1 == AddCheck(Now, TRUE, "error")
                 r2 == AddCheck(r1, has_version, "warning")
                 r3 == AddCheck(r2, has_author, "warning")
             IN  Goto(r3, "v_body")

\* Check 8: body line count, examples, error handling; Check 9 reads references/
CheckBody ==
    /\ pc = "v_body"
    /\ \E short \in BOOLEAN, has_examples \in BOOLEAN,
          has_error_handling \in BOOLEAN, refs \in 0..MaxRefs :
          LET r1 == AddCheck(Now, short, IF ~short THEN "warning" ELSE "error")
              r2 == AddCheck(r1, has_examples, "warning")
              r3 == AddCheck(r2, has_error_handling, "warning")
          IN  /\ results' = r3.results
              /\ checks' = r3.checks
              /\ refsLeft' = refs
              /\ pc' = "v_refs"
              /\ UNCHANGED <<mode, exitCode, parseVars, scalarVars>>

\* Check 9: one iteration of for ref in refs
CheckRef ==
    /\ pc = "v_refs"
    /\ refsLeft > 0
    /\ \E ref_mentioned \in BOOLEAN :
          LET r1 == AddCheck(Now, ref_mentioned, "warning")
          IN  /\ results' = r1.results
              /\ checks' = r1.checks
              /\ refsLeft' = refsLeft - 1
              /\ UNCHANGED <<mode, pc, exitCode, parseVars, scalarVars>>

\* Summary and return results
Summarise ==
    /\ pc = "v_refs"
    /\ refsLeft = 0
    /\ results' = [results EXCEPT !.summary =
                       IF results.failed = 0 THEN "PASS" ELSE "FAIL"]
    /\ pc' = "returned"
    /\ UNCHANGED <<mode, checks, refsLeft, exitCode, parseVars, scalarVars>>

\* 0 if results["failed"] == 0 else 1
ExitStatus(r) == IF r.failed = 0 THEN 0 ELSE 1

\* sys.exit(...)
Exit ==
    /\ pc = "returned"
    /\ exitCode' = ExitStatus(results)
    /\ pc' = "exited"
    /\ UNCHANGED <<mode, results, checks, refsLeft, parseVars, scalarVars>>

----------------------------------------------------------------------------
(* Inputs *)

SeqsUpTo(S, n) == UNION {[1..m -> S] : m \in 0..n}

RECURSIVE Concat(_)
Concat(parts) == IF parts = <<>> THEN <<>> ELSE Head(parts) \o Concat(Tail(parts))

\* frontmatter lines
LinePool ==
    { <<>>,                                         \* ""
      <<"#", " ", "c">>,                            \* "# c"
      <<" ", " ", "#">>,                            \* "  #"
      <<"a", ":", " ", "1">>,                       \* "a: 1"
      <<"k", ":">>,                                 \* "k:"
      <<"k", ":", " ", "|">>,                       \* "k: |"
      <<"k", ":", " ", ">">>,                       \* "k: >"
      <<"a", ":", " ", "-", " ", "i">>,             \* "a: - i"
      <<"-", " ", "i">>,                            \* "- i"
      <<"-", " ", ":", " ", "i">>,                  \* "- : i"
      <<"x">>,                                      \* "x"
      <<" ", "b", ":", " ", "1">>,                  \* " b: 1"
      <<" ", " ", "c", ":", " ", "x">>,             \* "  c: x"
      <<" ", " ", "c", ":">>,                       \* "  c:"
      <<" ", " ", "d", ":", " ", "|">>,             \* "  d: |"
      <<" ", " ", "-", " ", "i">>,                  \* "  - i"
      <<" ", " ", "x">>,                            \* "  x"
      <<" ", " ", " ", "y", ":", " ", "1">>,        \* "   y: 1"
      <<" ", " ", " ", " ", "x">> }                 \* "    x"

\* lines handed to a direct call of _collect_block_scalar
BlockPool ==
    { <<>>,                                         \* ""
      <<" ">>,                                      \* " "
      <<" ", " ", "a">>,                            \* "  a"
      <<" ", " ", "b">>,                            \* "  b"
      <<" ", " ", "c">>,                            \* "  c"
      <<"x">>,                                      \* "x"
      <<" ", " ", " ", " ", "d", " ">> }            \* "    d "

\* pieces of scalar tokens
TokenParts ==
    { <<" ">>, <<DQ>>, <<SQ>>, <<"-">>, <<".">>, <<"~">>, <<"x">>,
      <<"0">>, <<"4", "2">>,
      <<"t", "r", "u", "e">>, <<"F", "A", "L", "S", "E">>,
      <<"n", "u", "l", "l">>, <<"N", "o", "n", "e">> }

Tokens == {Concat(ps) : ps \in SeqsUpTo(TokenParts, MaxParts)}

NoResult == [type |-> "unset"]

IdleParse ==
    /\ lines = <<>> /\ data = EmptyMap /\ i = 0 /\ j = 0 /\ k = 0
    /\ key = <<>> /\ childKey = <<>> /\ nestedData = EmptyMap
    /\ bi = 0 /\ blockLines = <<>> /\ minIndent = 0 /\ folded = FALSE
    /\ ret = "none" /\ startIdx = 0 /\ outText = <<>> /\ outNext = 0
    /\ err = NoErr /\ visited = <<>>

IdleScalar == tok = <<>> /\ res = NoResult

IdleValidate ==
    /\ results = NewResults
    /\ checks = [c \in CheckKinds |-> 0]
    /\ refsLeft = 0
    /\ exitCode = -1

\* entry of _parse_frontmatter_stdlib: lines = splitlines(), data = {}, i = 0
InitParse ==
    /\ mode = "parse"
    /\ pc = "top"
    /\ lines \in SeqsUpTo(LinePool, MaxLines)
    /\ data = EmptyMap /\ i = 0 /\ j = 0 /\ k = 0
    /\ key = <<>> /\ childKey = <<>> /\ nestedData = EmptyMap
    /\ bi = 0 /\ blockLines = <<>> /\ minIndent = 0 /\ folded = FALSE
    /\ ret = "none" /\ startIdx = 0 /\ outText = <<>> /\ outNext = 0
    /\ err = NoErr
    /\ visited = [n \in 1..Len(lines) |-> <<>>]
    /\ IdleScalar /\ IdleValidate

\* entry of _collect_block_scalar: block_lines = [], i = start_idx
InitCollect ==
    /\ mode = "collect"
    /\ pc = "block"
    /\ lines \in SeqsUpTo(BlockPool, MaxBlockLines)
    /\ startIdx \in {0, 1}
    /\ startIdx <= Len(lines)
    /\ minIndent \in {2, 4}
    /\ folded \in BOOLEAN
    /\ bi = startIdx
    /\ blockLines = <<>>
    /\ ret = "call"
    /\ data = EmptyMap /\ i = 0 /\ j = 0 /\ k = 0
    /\ key = <<>> /\ childKey = <<>> /\ nestedData = EmptyMap
    /\ outText = <<>> /\ outNext = 0
    /\ err = NoErr
    /\ visited = [n \in 1..Len(lines) |-> <<>>]
    /\ IdleScalar /\ IdleValidate

\* entry of _parse_scalar
InitScalar ==
    /\ mode = "scalar"
    /\ pc = "scalar"
    /\ tok \in Tokens
    /\ res = NoResult
    /\ IdleParse /\ IdleValidate

NextCollect == BlockBlank \/ BlockTake \/ BlockEnd

NextScalar == Coerce

Next ==
    \/ TopDone \/ TopSkip \/ TopIndentError \/ TopEntryError \/ TopBlock
    \/ TopListError \/ TopScalar \/ TopEmpty
    \/ LookAdvance \/ LookEndEmpty \/ LookEndNested
    \/ NestedEnd \/ NestedSkip \/ NestedError \/ NestedBlock \/ NestedScalar
    \/ BlockBlank \/ BlockTake \/ BlockEnd

Spec == InitParse /\ [][Next]_vars
SpecCollect == InitCollect /\ [][NextCollect]_vars
SpecScalar == InitScalar /\ [][NextScalar]_vars

\* entry of validate_skill
InitValidate ==
    /\ mode = "validate"
    /\ pc = "v_folder"
    /\ IdleValidate
    /\ IdleParse /\ IdleScalar

NextValidate ==
    \/ CheckFolder \/ CheckKebab \/ CheckSkillMd \/ CheckReadme
    \/ CheckDelimiters \/ CheckParse \/ CheckName \/ CheckDescription
    \/ CheckMetadata \/ CheckBody \/ CheckRef \/ Summarise \/ Exit

SpecValidate == InitValidate /\ [][NextValidate]_vars

----------------------------------------------------------------------------
(* Properties of the subset parser *)

Parsing == mode = "parse"
Finished == pc \in {"done", "fail"}

ListLines == {n \in 1..Len(lines) : StartsWith(lines[n], <<"-", " ">>)}
FirstListLine == CHOOSE n \in ListLines : \A m \in ListLines : n <= m

\* C1: every input line that begins with "- " is rejected with the
\* list-syntax failure carrying that line's 1-based number: a finished parse
\* of an input holding such a line has failed, and unless it failed on an
\* earlier line it failed on the first such line with the list-syntax error.
C1_ListLineRejected ==
    (Parsing /\ Finished /\ ListLines # {}) =>
        /\ pc = "fail"
        /\ err.line >= FirstListLine =>
              (err.line = FirstListLine /\ err.kind = "List")

IsScalarValue(v) == v.type \in ScalarTypes

\* C2: when the parser returns a mapping, every top-level value is a scalar
\* or a mapping whose values are all scalars.
C2_OneLevelNesting ==
    (Parsing /\ pc = "done") =>
        \A kk \in DOMAIN data :
            \/ IsScalarValue(data[kk])
            \/ /\ data[kk].type = "map"
               /\ \A c \in DOMAIN data[kk].m : IsScalarValue(data[kk].m[c])

C2_Witness ==
    /\ Parsing /\ pc = "done"
    /\ \E kk \in DOMAIN data :
          /\ data[kk].type = "map"
          /\ \E c \in DOMAIN data[kk].m : data[kk].m[c] = VStr(<<>>)

\* a line the nested loop is about to process that is indented by more than
\* two spaces
AtDeepLine ==
    /\ Parsing /\ pc = "nested" /\ k < j
    /\ Strip(Line(k)) # <<>>
    /\ Strip(Line(k))[1] # "#"
    /\ Indent(Line(k)) > 2

\* C3: a content line of a nested region indented by more than two spaces,
\* not consumed as the body of a nested block scalar, makes the parse fail
\* with the deep-nesting failure at that line's 1-based number; no parse
\* that returns has consumed such a line as a child or skipped it.
C3_DeepNestingRejected ==
    /\ [][AtDeepLine => (pc' = "fail" /\ err' = [kind |-> "Deep", line |-> k + 1])]_vars
    /\ [](Parsing =>
            \A n \in 1..Len(visited) :
                (Indent(lines[n]) > 2 /\ Strip(lines[n]) # <<>>
                    /\ Strip(lines[n])[1] # "#" /\ visited[n] # <<>>)
                => visited[n] = <<"body">>)

C3_Witness ==
    /\ Parsing /\ pc = "fail"
    /\ lines = << <<"k", ":">>, <<" ", " ", "c", ":">>, <<" ", " ", " ", " ", "x">> >>
    /\ err = [kind |-> "Deep", line |-> 3]

\* a content line beginning with a space that top-level scanning has reached
AtTopIndentedLine ==
    /\ Parsing /\ pc = "top" /\ i < Len(lines)
    /\ Strip(Line(i)) # <<>>
    /\ Strip(Line(i))[1] # "#"
    /\ Line(i)[1] = " "

\* C4: every non-blank, non-comment line that top-level scanning reaches and
\* that begins with a space makes the parse fail with the top-level
\* indentation failure at that line's 1-based number.
C4_TopIndentationRejected ==
    [][AtTopIndentedLine =>
          (pc' = "fail" /\ err' = [kind |-> "Indent", line |-> i + 1])]_vars

\* a one-space line after an empty-valued key, or an indented line after a
\* key with a scalar value, has been rejected
C4_Witness ==
    /\ Parsing /\ pc = "fail"
    /\ err = [kind |-> "Indent", line |-> 2]
    /\ \/ lines[1] = <<"k", ":">> /\ lines[2] = <<" ", "b", ":", " ", "1">>
       \/ lines[1] = <<"a", ":", " ", "1">> /\ lines[2] = <<" ", " ", "c", ":", " ", "x">>

----------------------------------------------------------------------------
(* Properties of block-scalar collection *)

Collected == mode = "collect" /\ pc = "done"

\* lines stripped of surrounding whitespace and joined by single spaces
SpaceJoined(ls) == Join(<<" ">>, [n \in 1..Len(ls) |-> Strip(ls[n])])

IndentedText(line) == Strip(line) # <<>> /\ Indent(line) >= 2

\* the input is two runs of indented non-blank lines separated by the one
\* blank line at position b
TwoRunsAround(b) ==
    /\ b > 1 /\ b < Len(lines)
    /\ lines[b] = <<>>
    /\ \A n \in 1..Len(lines) : n # b => IndentedText(lines[n])

\* C5: folded collection with minIndent 2 over two runs of indented lines
\* separated by one blank line returns the two space-joined paragraphs
\* joined by a single newline ("a b", newline, "c" for the example).
C5_FoldedParagraphBreak ==
    (Collected /\ folded /\ minIndent = 2 /\ startIdx = 0) =>
        \A b \in 1..Len(lines) :
            TwoRunsAround(b) =>
                outText = SpaceJoined(SubSeq(lines, 1, b - 1)) \o <<NL>>
                          \o SpaceJoined(SubSeq(lines, b + 1, Len(lines)))

\* index of the first non-blank line at or after from whose leading-space
\* count is below min, or the number of lines
StopIndex(from, min) ==
    LET stops == {n \in from..(Len(lines) - 1) :
                     Strip(lines[n + 1]) # <<>> /\ Indent(lines[n + 1]) < min}
    IN  IF stops = {} THEN Len(lines)
        ELSE CHOOSE n \in stops : \A m \in stops : n <= m

\* the accumulation of the lines from..(to - 1): blank lines as empty
\* lines, the others without their first min characters
Accumulated(from, to, min) ==
    [n \in 1..(to - from) |->
        IF Strip(lines[from + n]) = <<>> THEN <<>>
        ELSE SubSeq(lines[from + n], min + 1, Len(lines[from + n]))]

\* t is full with its trailing whitespace removed
IsRightStripOf(t, full) ==
    /\ Len(t) <= Len(full)
    /\ t = SubSeq(full, 1, Len(t))
    /\ t # <<>> => t[Len(t)] \notin Whitespace
    /\ \A n \in (Len(t) + 1)..Len(full) : full[n] \in Whitespace

\* C6: collection consumes exactly the lines up to the first non-blank line
\* indented by less than minIndent (or the end of input), accumulates blank
\* lines as empty lines and the others without their first minIndent
\* characters, returns the index of the terminating line, and in literal
\* mode returns the accumulated lines joined by newlines with trailing
\* whitespace stripped.
C6_LiteralCollection ==
    Collected =>
        /\ outNext = StopIndex(startIdx, minIndent)
        /\ blockLines = Accumulated(startIdx, outNext, minIndent)
        /\ ~folded => IsRightStripOf(outText, Join(<<NL>>, blockLines))

C6_Witness ==
    /\ Collected /\ ~folded /\ minIndent = 2 /\ startIdx = 0
    /\ lines = << <<" ", " ", "a">>, <<" ", " ", "b">>, <<>> >>
    /\ outText = <<"a", NL, "b">>
    /\ outNext = 3

----------------------------------------------------------------------------
(* Properties of scalar coercion *)

Coerced == mode = "scalar" /\ pc = "done"

\* the token without its leading and trailing whitespace
Trimmed(t) ==
    LET body == {n \in 1..Len(t) : t[n] \notin Whitespace}
    IN  IF body = {} THEN <<>>
        ELSE SubSeq(t, CHOOSE n \in body : \A m \in body : n <= m,
                       CHOOSE n \in body : \A m \in body : n >= m)

WrappedInQuotes(v) == v[1] \in {DQ, SQ} /\ v[Len(v)] = v[1]

AllDigits(v) == v # <<>> /\ \A n \in 1..Len(v) : v[n] \in Digits

IntegerShape(v) == AllDigits(v) \/ (v[1] = "-" /\ AllDigits(Tail(v)))

DecimalShape(v) ==
    LET u == IF v[1] = "-" THEN Tail(v) ELSE v
    IN  \E d \in 1..Len(u) :
            u[d] = "." /\ AllDigits(SubSeq(u, 1, d - 1))
                /\ AllDigits(SubSeq(u, d + 1, Len(u)))

----------------------------------------------------------------------------
(* Termination of the subset parser *)

\* A variant of the three loops: the lines still ahead of the top-level
\* index weigh most, then the position inside the current entry.
Weight == 4 * (Len(lines) + 1)

Variant ==
    CASE pc = "top" -> Weight * (Len(lines) - i) + Weight - 1
      [] pc = "look" -> Weight * (Len(lines) - i) + 3 * (Len(lines) + 1) + (Len(lines) - j)
      [] pc = "nested" -> Weight * (Len(lines) - i) + 2 * (Len(lines) - k) + 1
      [] pc = "block" -> Weight * (Len(lines) - i) + 2 * (Len(lines) - bi) + 2
      [] OTHER -> 0

\* each loop, from one evaluation of its condition to the next, has moved
\* its own index forward
LoopsAdvance ==
    /\ pc' = "top" => i' > i
    /\ (pc' = "look" /\ pc = "look") => j' > j
    /\ (pc' = "look" /\ pc = "top") => j' > i
    /\ (pc' = "nested" /\ pc # "look") => k' > k
    /\ (pc' = "block" /\ pc = "block") => bi' > bi
    /\ (pc' = "block" /\ pc = "top") => bi' > i
    /\ (pc' = "block" /\ pc = "nested") => bi' > k

\* C8: the parser terminates on every finite input: every step of the
\* top-level, look-ahead, nested and block-scalar loops either ends the
\* parse (failure or return) or strictly advances its line index, and a
\* natural-number variant strictly decreases on every step.
C8_ForwardProgress ==
    [][Parsing =>
          /\ Variant >= 0
          /\ Variant' < Variant
          /\ pc' \in {"fail", "done"} \/ LoopsAdvance]_vars

\* a parse that went through a block scalar inside a nested mapping and
\* returned
C8_Witness ==
    /\ Parsing /\ pc = "done"
    /\ \E n \in 1..Len(visited) : visited[n] = <<"child">>
    /\ \E n \in 1..Len(visited) : visited[n] = <<"body">>
    /\ i = Len(lines)

----------------------------------------------------------------------------
(* Exit code of the validator *)

Exited == mode = "validate" /\ pc = "exited"

ErrorCheckFailed == checks[[passed |-> FALSE, severity |-> "error"]] > 0
WarningCheckFailed == checks[[passed |-> FALSE, severity |-> "warning"]] > 0

\* C9: the exit code is 0 exactly when no check of severity error failed
\* and 1 otherwise, on every return path; failed warnings do not change it;
\* the summary starts with FAIL exactly when the exit code is 1.
C9_ExitCode ==
    Exited =>
        /\ exitCode \in {0, 1}
        /\ exitCode = 1 <=> ErrorCheckFailed
        /\ results.summary = "FAIL" <=> exitCode = 1
        /\ results.summary \in {"FAIL", "PASS"}

\* a run with a failed warning and no failed error exits with 0
C9_Witness ==
    /\ Exited
    /\ WarningCheckFailed
    /\ exitCode = 0
    /\ results.summary = "PASS"

----------------------------------------------------------------------------
(* The value stored for an empty-valued top-level key *)

\* blank, comment, or starting with two spaces
RunLine(line) ==
    \/ Strip(line) = <<>>
    \/ Strip(line)[1] = "#"
    \/ (Len(line) >= 2 /\ line[1] = " " /\ line[2] = " ")

\* index of the first line after the maximal run that follows line from
RunEnd(from) ==
    LET outside == {n \in (from + 1)..(Len(lines) - 1) : ~RunLine(lines[n + 1])}
    IN  IF outside = {} THEN Len(lines)
        ELSE CHOOSE n \in outside : \A m \in outside : n <= m

RunContent(from) ==
    {n \in (from + 1)..(RunEnd(from) - 1) :
        Strip(lines[n + 1]) # <<>> /\ Strip(lines[n + 1])[1] # "#"}

\* the content lines of the run that are children, not block-scalar bodies
ChildLines(from) == {n \in RunContent(from) : visited[n + 1] # <<"body">>}

ChildKeyOf(n) == KeyMatch(SubSeq(lines[n + 1], 3, Len(lines[n + 1]))).key
ChildRawOf(n) == KeyMatch(SubSeq(lines[n + 1], 3, Len(lines[n + 1]))).value

\* the value of the child on line n: a block scalar collected with
\* minIndent 4 from the next line, or the coerced inline value
ChildEntryOf(n) ==
    IF ChildRawOf(n) \in BlockMarkers
    THEN VStr(BlockText(Accumulated(n + 1, StopIndex(n + 1, 4), 4),
                        ChildRawOf(n)[1] = ">"))
    ELSE ParseScalar(ChildRawOf(n))

\* the parser has finished the value region of the empty-valued key on line i
RegionStored == Parsing /\ pc \in {"look", "nested"} /\ pc' = "top"

\* the parts of the statement that do not count entries
RegionResult ==
    /\ i' = RunEnd(i)
    /\ key \in DOMAIN data'
    /\ RunContent(i) = {} => data'[key] = VStr(<<>>)
    /\ RunContent(i) # {} => data'[key].type = "map"

\* C10 as stated: the key of an empty value followed by a run with content
\* maps to a mapping holding one entry per child content line, each entry
\* the coerced or collected value of its line; scanning resumes after the
\* maximal run.
C10_OneEntryPerChildLine ==
    [][RegionStored =>
          /\ RegionResult
          /\ RunContent(i) # {} =>
                /\ Cardinality(DOMAIN data'[key].m) = Cardinality(ChildLines(i))
                /\ \A n \in ChildLines(i) :
                       /\ ChildKeyOf(n) \in DOMAIN data'[key].m
                       /\ data'[key].m[ChildKeyOf(n)] = ChildEntryOf(n)]_vars

\* the last child line that carries the same key as line n
LastWithKey(n, from) ==
    CHOOSE m \in ChildLines(from) :
        /\ ChildKeyOf(m) = ChildKeyOf(n)
        /\ \A o \in ChildLines(from) : ChildKeyOf(o) = ChildKeyOf(n) => o <= m

\* C10 amended: the mapping holds one entry per distinct child key, the
\* value being that of the last child line with that key; the rest of the
\* statement is unchanged.
C10_OneEntryPerChildKey ==
    [][RegionStored =>
          /\ RegionResult
          /\ RunContent(i) # {} =>
                /\ DOMAIN data'[key].m = {ChildKeyOf(n) : n \in ChildLines(i)}
                /\ \A n \in ChildLines(i) :
                       data'[key].m[ChildKeyOf(n)] = ChildEntryOf(LastWithKey(n, i))]_vars

\* two child lines with the same key have been stored as one entry
C10_Witness ==
    /\ Parsing /\ pc = "done"
    /\ lines = << <<"k", ":">>, <<" ", " ", "c", ":", " ", "x">>, <<" ", " ", "c", ":">> >>
    /\ data = (<<"k">> :> VMap(<<"c">> :> VStr(<<>>)))

----------------------------------------------------------------------------
(* The nested loop stays inside the look-ahead run *)

\* a block scalar of a nested child is being collected
InNestedBlock == pc = "block" /\ ret = "nested"

\* line n (1-based) has been consumed exactly once
ConsumedOnce(n) == Len(visited[n]) = 1

\* C11: while a nested mapping is parsed, the index returned by block-scalar
\* collection for a nested child never exceeds the end j of the look-ahead
\* run, so k <= j; no line at or after j is consumed as nested content; and
\* whenever top-level scanning resumes, every line before i has been
\* consumed exactly once and no line from i on has been consumed.
C11_NestedStaysInRun ==
    Parsing =>
        /\ pc = "nested" => (k <= j /\ k > i)
        /\ InNestedBlock => (bi <= j /\ bi > k)
        /\ (pc = "nested" \/ InNestedBlock) =>
              /\ j <= Len(lines)
              /\ \A n \in (j + 1)..Len(lines) : visited[n] = <<>>
        /\ pc \in {"top", "done"} =>
              /\ \A n \in 1..i : ConsumedOnce(n)
              /\ \A n \in (i + 1)..Len(lines) : visited[n] = <<>>

\* a nested block scalar whose collection consumed a body line and returned
\* exactly the end of the run
C11_Witness ==
    /\ Parsing /\ pc = "nested" /\ ret = "nested"
    /\ outNext = j /\ k = j
    /\ \E n \in 1..j : visited[n] = <<"body">>

====
